---- MODULE Spec2Model ----
(***************************************************************************)
(* Sparse-event-to-dense-panel jobs of QuantizationFactor.                 *)
(*                                                                         *)
(* Every job holds a trading calendar (self.index), a security universe    *)
(* (self.column), a record source (self.db) and a store of persisted       *)
(* panels (one hdf5 entry per factor).  rewrite_data builds the panels     *)
(* from the whole source, update_data extends them to the calendar dates   *)
(* they do not hold yet.  One behaviour of the model is one job working on *)
(* one source while the calendar grows.                                    *)
(*                                                                         *)
(* Dates are integers (the code compares 'YYYYMMDD' strings, which order   *)
(* as the numbers do); security codes are integers ordered as the code's   *)
(* strings are; a panel is the sequence of its rows, each a row key and    *)
(* one cell per universe column, in universe order.                        *)
(***************************************************************************)
EXTENDS Integers, Sequences, FiniteSets, TLC

VARIABLES
    job,        \* which ingestion job this behaviour runs
    index,      \* self.index: the trading calendar, ascending
    db,         \* the rows of the source table, in the order the source returns them
    sortUnion,  \* whether the frame constructor sorts the union of row keys
    store,      \* entry name -> persisted panel
    updates,    \* update_data runs that wrote since the last rewrite_data
    last        \* what the last operation did

vars == <<job, index, db, sortUnion, store, updates, last>>

----------------------------------------------------------------------------
(* Bounds of the model. *)

MaxDate == 5
MaxRecords == 3
MaxValue == 2
MaxRuns == 2
MaxCalendar == 3
MaxHNRecords == 2
MaxDenseRecords == 2
MaxAFIRecords == 2
MaxAllRecords == 1

(* NaN / None: a missing cell, a NULL of the source. *)
Null == -1

Dates == 1..MaxDate

(* The dates ReadIndex may return: 1 is before every trading date, 3 falls
   between two of them. *)
TradingDates == {2, 4, 5}

(* self.column: the universe, in its own order. *)
column == <<2, 1>>

(* float_volume.hdf5, key 'float_volume' *)
FVEntry == "float_volume"

(* holder_number.hdf5, key 'holder_number' *)
HNEntry == "holder_number"

----------------------------------------------------------------------------
(* Sequences, dicts and frames. *)

Range(s) == {s[i] : i \in DOMAIN s}

Last(s) == s[Len(s)]

MinOf(S) == CHOOSE x \in S : \A y \in S : x <= y

MaxOf(S) == CHOOSE x \in S : \A y \in S : x >= y

RECURSIVE SetToSortedSeq(_)
SetToSortedSeq(S) ==
    IF S = {} THEN <<>>
    ELSE LET m == CHOOSE x \in S : \A y \in S : x <= y
         IN <<m>> \o SetToSortedSeq(S \ {m})

RECURSIVE SetToSeq(_)
SetToSeq(S) ==
    IF S = {} THEN <<>>
    ELSE LET m == CHOOSE x \in S : TRUE
         IN <<m>> \o SetToSeq(S \ {m})

(* Every date of a counts as missing from b. *)
SortedDiffAll(a, b) == SetToSortedSeq(Range(a))

(* sorted(list(set(a) - set(b))) *)
SortedDiff(a, b) == SetToSortedSeq(Range(a) \ Range(b))

(* A dict is the sequence of its <<key, value>> items, in insertion order. *)
DictKeys(d) == [i \in DOMAIN d |-> d[i][1]]

DictHas(d, k) == \E i \in DOMAIN d : d[i][1] = k

DictGet(d, k) == d[CHOOSE i \in DOMAIN d : d[i][1] = k][2]

(* d[k] = v: a new key goes last, a key already there keeps its place. *)
DictPut(d, k, v) ==
    IF DictHas(d, k)
    THEN [i \in DOMAIN d |-> IF d[i][1] = k THEN <<k, v>> ELSE d[i]]
    ELSE Append(d, <<k, v>>)

(* The keys of several dicts, each once, in order of first appearance. *)
RECURSIVE UniqueInOrder(_, _)
UniqueInOrder(s, seen) ==
    IF s = <<>> THEN <<>>
    ELSE IF Head(s) \in seen THEN UniqueInOrder(Tail(s), seen)
    ELSE <<Head(s)>> \o UniqueInOrder(Tail(s), seen \cup {Head(s)})

RECURSIVE Concat(_)
Concat(ss) == IF ss = <<>> THEN <<>> ELSE Head(ss) \o Concat(Tail(ss))

(* A panel that was never written cannot be read. *)
NoPanel == [exists |-> FALSE, rows |-> <<>>]

(* A read that never fails: it takes a missing panel for one without rows. *)
ReadsAnything(p) == TRUE

(* pd.read_hdf(path, entry) raises unless the entry was written. *)
CanRead(p) == p.exists

Panel(rows) == [exists |-> TRUE, rows |-> rows]

RowKeys(rows) == [i \in DOMAIN rows |-> rows[i].key]

(* How many rows of a frame have the key d. *)
KeyCount(rows, d) == Cardinality({i \in DOMAIN rows : rows[i].key = d})

(* The cell (d, Universe[c]) of the first row keyed d. *)
Cell(rows, d, c) == rows[CHOOSE i \in DOMAIN rows : rows[i].key = d
                            /\ \A j \in DOMAIN rows : rows[j].key = d => i <= j].cells[c]

ColOf(code) == CHOOSE c \in DOMAIN column : column[c] = code

(* pd.DataFrame(dict_of_dicts, columns=self.column) with no index given: the
   row index is the union of the inner dicts' keys over the universe columns
   the outer dict holds.  The union is sorted by the older releases of the
   library and kept in order of first appearance by the newer ones. *)
FrameFromDicts(main, sorted) ==
    LET have == [c \in DOMAIN column |-> column[c] \in DOMAIN main]
        lists == [c \in DOMAIN column |->
                     IF have[c] THEN DictKeys(main[column[c]]) ELSE <<>>]
        keys == IF sorted THEN SetToSortedSeq(Range(Concat(lists)))
                ELSE UniqueInOrder(Concat(lists), {})
    IN [i \in DOMAIN keys |->
          [key |-> keys[i],
           cells |-> [c \in DOMAIN column |->
                        IF have[c] /\ DictHas(main[column[c]], keys[i])
                        THEN DictGet(main[column[c]], keys[i]) ELSE Null]]]

(* sort_values on several columns: the keys ascend and records with equal keys
   keep the order they came in.  keys[i] is the sort key of recs[i]. *)
SortValues(recs, keys) ==
    LET n == Len(recs)
        Rank(i) == 1 + Cardinality({j \in 1..n :
                          keys[j] < keys[i] \/ (keys[j] = keys[i] /\ j < i)})
    IN [k \in 1..n |-> recs[CHOOSE i \in 1..n : Rank(i) = k]]

(* The rows of a table in one order the source may return them in: the table
   as a set, by ascending key (key[r] tells any two rows apart). *)
RowsInOrder(t, key) ==
    LET ks == SetToSortedSeq({key[r] : r \in t})
    IN [i \in DOMAIN ks |-> CHOOSE r \in t : key[r] = ks[i]]

----------------------------------------------------------------------------
(* FloatVolume (float_volume.py). *)

(* begin_date: str = '20160101' *)
FVDefaultBegin == 2

FVRecords == [code : {1, 2}, dt : Dates, val : 0..MaxValue]

(* The latest record(s) of each code at or before begin_date, kept only when
   FLOAT_A_SHR > 0 (the filter is applied after the join). *)
FVReadBefore(table, begin) ==
    LET Keep(r) == /\ r.dt <= begin
                   /\ \A q \in Range(table) :
                          (q.code = r.code /\ q.dt <= begin) => q.dt <= r.dt
                   /\ r.val > 0
    IN SelectSeq(table, Keep)

FVReadAfter(table, begin) ==
    LET Keep(r) == r.dt >= begin /\ r.val > 0
    IN SelectSeq(table, Keep)

(* data_a.append(data_b, ignore_index=True) *)
FVReadData(table, begin) == FVReadBefore(table, begin) \o FVReadAfter(table, begin)

(* sort_values(['WIND_CODE', 'CHANGE_DT']) *)
FVSortKey(r) == r.code * (MaxDate + 1) + r.dt

FVSorted(recs) == SortValues(recs, [i \in DOMAIN recs |-> FVSortKey(recs[i])])

(* self.index[self.index.index(i):] *)
SliceFrom(idx, i) ==
    LET p == CHOOSE k \in DOMAIN idx : idx[k] = i /\ \A j \in DOMAIN idx : idx[j] = i => k <= j
    IN SubSeq(idx, p, Len(idx))

(* The loop over index_iter for two records of one stock. *)
RECURSIVE FVSameStock(_, _, _, _, _)
FVSameStock(it, stock, pre, rec, idx) ==
    IF it = <<>> THEN [it |-> <<>>, stock |-> stock]
    ELSE LET i == Head(it) IN
        IF i < pre.dt THEN FVSameStock(Tail(it), stock, pre, rec, idx)
        ELSE IF i < rec.dt
            THEN FVSameStock(Tail(it), DictPut(stock, i, pre.val), pre, rec, idx)
        ELSE IF i = rec.dt
            THEN FVSameStock(Tail(it), DictPut(stock, i, rec.val), pre, rec, idx)
        ELSE [it |-> SliceFrom(idx, i), stock |-> stock]

(* for index in index_iter: stock_dict[index] = value *)
RECURSIVE FVFillRest(_, _, _)
FVFillRest(it, stock, v) ==
    IF it = <<>> THEN stock
    ELSE FVFillRest(Tail(it), DictPut(stock, Head(it), v), v)

(* The loop over the sorted records from the k-th on; st holds main_dict,
   stock_dict, index_iter and pre_record_. *)
RECURSIVE FVLoop(_, _, _, _)
FVLoop(recs, k, st, idx) ==
    IF k > Len(recs) THEN st
    ELSE LET pre == st.pre
             rec == recs[k]
         IN IF pre.code # rec.code
            THEN FVLoop(recs, k + 1,
                        [main |-> (pre.code :> FVFillRest(st.it, st.stock, pre.val)) @@ st.main,
                         stock |-> <<>>, it |-> idx, pre |-> rec], idx)
            ELSE LET r == FVSameStock(st.it, st.stock, pre, rec, idx)
                 IN FVLoop(recs, k + 1,
                           [main |-> st.main, stock |-> r.stock, it |-> r.it,
                            pre |-> rec], idx)

(* The dict of dicts the walk leaves: firstIter is what index_iter starts
   as, idx is self.index, which every reset of the iterator goes back to. *)
FVWalk(recs, firstIter, idx) ==
    LET st == FVLoop(recs, 2,
                     [main |-> <<>>, stock |-> <<>>, it |-> firstIter, pre |-> recs[1]], idx)
    IN (st.pre.code :> FVFillRest(st.it, st.stock, st.pre.val)) @@ st.main

(* self.target_column of the jobs that split their records by factor, cut to
   two factors; the probe of L2Indicators is not its first factor. *)
TargetColumn(j) ==
    IF j = "EOD" THEN <<"S_VAL_MV", "S_DQ_MV">>
    ELSE IF j = "L2" THEN <<"S_LI_INITIATIVEBUYRATE", "S_LI_ENTRUSTRATE">>
    ELSE IF j = "CSS" THEN <<"score", "profit_score">>
    ELSE IF j = "AFI" THEN <<"S_FA_EPS_DILUTED">>
    ELSE <<>>

(* The seasons of a report period: '0331' and '1231'. *)
Seasons == {1, 2}

(* The factor whose stored panel update_data compares with the calendar. *)
Probe(j) ==
    IF j = "EOD" THEN "S_VAL_MV"
    ELSE IF j = "L2" THEN "S_LI_ENTRUSTRATE"
    ELSE IF j = "CSS" THEN "score"
    ELSE IF j = "AFI" THEN <<"S_FA_EPS_DILUTED", 1>>
    ELSE IF j = "FV" THEN FVEntry
    ELSE HNEntry

(* The entries of the store of job j: one hdf5 file per factor, and for
   AnnFinancialIndicator one per factor and season number ('{}_{}.hdf5'). *)
Entries(j) ==
    IF j = "FV" THEN {FVEntry}
    ELSE IF j = "HN" THEN {HNEntry}
    ELSE IF j = "AFI" THEN Range(TargetColumn(j)) \X (1..Cardinality(Seasons))
    ELSE Range(TargetColumn(j))

(* Nothing was ever written. *)
NoStore == [e \in Entries(job) |-> NoPanel]

(* What an operation leaves behind for the properties to read: the store an
   update_data run found (NoStore for the other operations), the new dates it
   computed, the sorted records it walked, the frame it built, whether it
   queried the source, which entries it wrote, whether it is an
   update_data run that follows an update_data run, whether that run was
   stopped between two writes, and the seasons whose
   panels the latest rewrite_data of AnnFinancialIndicator stored, in the
   order of their files. *)
Did(op, outcome, prev, newdate, recs, delta, fetched, written) ==
    [op |-> op, outcome |-> outcome, prev |-> prev, newdate |-> newdate,
     recs |-> recs, delta |-> delta, fetched |-> fetched, written |-> written,
     again |-> op = "update" /\ last.op = "update",
     resumed |-> op = "update" /\ last.op = "update" /\ last.outcome = "interrupted",
     seasons |-> IF job = "AFI" /\ op = "rewrite" /\ outcome = "ok"
                 THEN UniqueInOrder([i \in DOMAIN recs |-> recs[i].season], {})
                 ELSE last.seasons]

(* rewrite_data: float_a_shr[0] raises on an empty fetch; otherwise the frame
   of the walk over the whole calendar replaces the stored panel. *)
FVRewrite ==
    /\ job = "FV"
    /\ LET fetched == FVReadData(db, FVDefaultBegin) IN
        IF fetched = <<>>
        THEN /\ last' = Did("rewrite", "error", NoStore, <<>>, <<>>, <<>>, TRUE, {})
             /\ UNCHANGED <<store, updates>>
        ELSE LET recs == FVSorted(fetched)
                 frame == FrameFromDicts(FVWalk(recs, index, index), sortUnion) IN
                /\ store' = [store EXCEPT ![FVEntry] = Panel(frame)]
                /\ updates' = 0
                /\ last' = Did("rewrite", "ok", NoStore, <<>>, recs, frame, TRUE, {FVEntry})
    /\ UNCHANGED <<job, index, db, sortUnion>>

(* update_data: reads the stored panel, returns when no calendar date is
   missing from it, and otherwise appends the frame of the walk that starts
   on the new dates. *)
FVUpdate ==
    /\ job = "FV"
    /\ updates < MaxRuns
    /\ IF ~CanRead(store[FVEntry])
       THEN /\ last' = Did("update", "error", store, <<>>, <<>>, <<>>, FALSE, {})
            /\ UNCHANGED <<store, updates>>
       ELSE LET exist_data == store[FVEntry].rows
                new_date == SortedDiff(index, RowKeys(exist_data))
            IN IF new_date = <<>>
               THEN /\ last' = Did("update", "noop", store, new_date, <<>>, <<>>, FALSE, {})
                    /\ UNCHANGED <<store, updates>>
               ELSE LET fetched == FVReadData(db, new_date[1]) IN
                    IF fetched = <<>>
                    THEN /\ last' = Did("update", "error", store, new_date, <<>>, <<>>, TRUE, {})
                         /\ UNCHANGED <<store, updates>>
                    ELSE LET recs == FVSorted(fetched)
                             update == FrameFromDicts(FVWalk(recs, new_date, index), sortUnion) IN
                            /\ store' = [store EXCEPT ![FVEntry] = Panel(exist_data \o update)]
                            /\ updates' = updates + 1
                            /\ last' = Did("update", "ok", store, new_date, recs, update,
                                           TRUE, {FVEntry})
    /\ UNCHANGED <<job, index, db, sortUnion>>

----------------------------------------------------------------------------
(* HolderNumber (a_share_holder_number.py). *)

(* begin_date: str = '20160101' *)
HNDefaultBegin == 2

(* S_INFO_WINDCODE, ANN_DT, S_HOLDER_ENDDATE, S_HOLDER_NUM (which may be NULL) *)
HNRecords == [code : {1, 2}, ann : Dates, end : {1, 2}, num : {Null} \cup (1..MaxValue)]

(* The rows of each code with its latest ANN_DT before begin_date. *)
HNReadBefore(table, begin) ==
    LET Keep(r) == /\ r.ann < begin
                   /\ \A q \in Range(table) :
                          (q.code = r.code /\ q.ann < begin) => q.ann <= r.ann
    IN SelectSeq(table, Keep)

HNReadAfter(table, begin) ==
    LET Keep(r) == r.ann >= begin
    IN SelectSeq(table, Keep)

(* data_a.append(data_b, ignore_index=True) *)
HNReadData(table, begin) == HNReadBefore(table, begin) \o HNReadAfter(table, begin)

(* sort_values(['S_INFO_WINDCODE', 'ANN_DT', 'S_HOLDER_ENDDATE']) *)
HNSortKey(r) == (r.code * (MaxDate + 1) + r.ann) * (MaxDate + 1) + r.end

HNSorted(recs) == SortValues(recs, [i \in DOMAIN recs |-> HNSortKey(recs[i])])

(* The loop over data_iter from the k-th sorted record on; st holds
   holder_number, stock_dict and pre_record. *)
RECURSIVE HNLoop(_, _, _)
HNLoop(recs, k, st) ==
    IF k > Len(recs) THEN st
    ELSE LET pre == st.pre
             rec == recs[k]
         IN IF pre.code # rec.code
            THEN HNLoop(recs, k + 1,
                        [main |-> (pre.code :> DictPut(st.stock, pre.ann, pre.num)) @@ st.main,
                         stock |-> <<>>, pre |-> rec])
            ELSE IF pre.ann = rec.ann
            THEN HNLoop(recs, k + 1, [st EXCEPT !.pre = rec])
            ELSE HNLoop(recs, k + 1,
                        [main |-> st.main, stock |-> DictPut(st.stock, pre.ann, pre.num),
                         pre |-> rec])

(* holder_number: code -> {ANN_DT: S_HOLDER_NUM} *)
HNWalk(recs) ==
    LET st == HNLoop(recs, 2, [main |-> <<>>, stock |-> <<>>, pre |-> recs[1]])
    IN (st.pre.code :> DictPut(st.stock, st.pre.ann, st.pre.num)) @@ st.main

(* sorted(list(set(self.index) | set(a_share_holder_number.ANN_DT))) *)
HNIndexRange(idx, recs) == SetToSortedSeq(Range(idx) \cup {recs[i].ann : i \in DOMAIN recs})

(* pd.DataFrame(dict_of_dicts, index=rows): one column per outer key, one row
   per given row key; vals maps the column names to the cells. *)
FrameOnIndex(main, rows) ==
    [i \in DOMAIN rows |->
        [key |-> rows[i],
         vals |-> [code \in DOMAIN main |->
                      IF DictHas(main[code], rows[i])
                      THEN DictGet(main[code], rows[i]) ELSE Null]]]

(* A fill that leaves the missing cells missing. *)
NoFill(rows) == rows

(* fillna(method='ffill'): every missing cell takes the nearest cell above it
   that is not missing. *)
Ffill(rows) ==
    [i \in DOMAIN rows |->
        [key |-> rows[i].key,
         vals |-> [code \in DOMAIN rows[i].vals |->
                      LET js == {j \in 1..i : rows[j].vals[code] # Null}
                      IN IF js = {} THEN Null ELSE rows[MaxOf(js)].vals[code]]]]

(* A persisted panel as a frame with named columns. *)
ByCode(rows) ==
    [i \in DOMAIN rows |->
        [key |-> rows[i].key,
         vals |-> [code \in Range(column) |-> rows[i].cells[ColOf(code)]]]]

(* An append that puts the rows of b before the rows of a. *)
AppendReversed(a, b) ==
    LET cols == UNION {DOMAIN r.vals : r \in Range(a) \cup Range(b)}
        Widen(r) == [key |-> r.key,
                     vals |-> [code \in cols |->
                                  IF code \in DOMAIN r.vals THEN r.vals[code] ELSE Null]]
    IN [i \in DOMAIN b |-> Widen(b[i])] \o [i \in DOMAIN a |-> Widen(a[i])]

(* a.append(b): the rows of a, then the rows of b, over the columns of both. *)
AppendFrames(a, b) ==
    LET cols == UNION {DOMAIN r.vals : r \in Range(a) \cup Range(b)}
        Widen(r) == [key |-> r.key,
                     vals |-> [code \in cols |->
                                  IF code \in DOMAIN r.vals THEN r.vals[code] ELSE Null]]
    IN [i \in DOMAIN a |-> Widen(a[i])] \o [i \in DOMAIN b |-> Widen(b[i])]

(* reindex raises on a frame in which a row key occurs twice. *)
HasDuplicateKeys(rows) == \E d \in Range(RowKeys(rows)) : KeyCount(rows, d) > 1

(* reindex(index=self.index, columns=self.column) of a frame with no row key
   twice. *)
Reindex(rows, idx) ==
    [i \in DOMAIN idx |->
        [key |-> idx[i],
         cells |-> [c \in DOMAIN column |->
                      IF \E r \in Range(rows) : r.key = idx[i] /\ column[c] \in DOMAIN r.vals
                      THEN (CHOOSE r \in Range(rows) : r.key = idx[i]).vals[column[c]]
                      ELSE Null]]]

(* The forward-filled frame both operations build from the sorted records. *)
HNFrame(recs, idx) == Ffill(FrameOnIndex(HNWalk(recs), HNIndexRange(idx, recs)))

(* rewrite_data: next(data_iter) raises on an empty fetch; otherwise the frame
   cut to the calendar and the universe replaces the stored panel. *)
HNRewrite ==
    /\ job = "HN"
    /\ LET fetched == HNReadData(db, HNDefaultBegin) IN
        IF fetched = <<>>
        THEN /\ last' = Did("rewrite", "error", NoStore, <<>>, <<>>, <<>>, TRUE, {})
             /\ UNCHANGED <<store, updates>>
        ELSE LET recs == HNSorted(fetched)
                 df == Reindex(HNFrame(recs, index), index) IN
                /\ store' = [store EXCEPT ![HNEntry] = Panel(df)]
                /\ updates' = 0
                /\ last' = Did("rewrite", "ok", NoStore, <<>>, recs, df, TRUE, {HNEntry})
    /\ UNCHANGED <<job, index, db, sortUnion>>

(* update_data: reads the stored panel, returns when no calendar date is
   missing from it, and otherwise appends the frame built over the whole
   calendar and reindexes the result, which raises when a row key occurs
   twice. *)
HNUpdate ==
    /\ job = "HN"
    /\ updates < MaxRuns
    /\ IF ~CanRead(store[HNEntry])
       THEN /\ last' = Did("update", "error", store, <<>>, <<>>, <<>>, FALSE, {})
            /\ UNCHANGED <<store, updates>>
       ELSE LET holder_number_local == store[HNEntry].rows
                new_date == SortedDiff(index, RowKeys(holder_number_local))
            IN IF new_date = <<>>
               THEN /\ last' = Did("update", "noop", store, new_date, <<>>, <<>>, FALSE, {})
                    /\ UNCHANGED <<store, updates>>
               ELSE LET fetched == HNReadData(db, new_date[1]) IN
                    IF fetched = <<>>
                    THEN /\ last' = Did("update", "error", store, new_date, <<>>, <<>>, TRUE, {})
                         /\ UNCHANGED <<store, updates>>
                    ELSE LET recs == HNSorted(fetched)
                             df == HNFrame(recs, index)
                             appended == AppendFrames(ByCode(holder_number_local), df)
                         IN IF HasDuplicateKeys(appended)
                            THEN /\ last' = Did("update", "error", store, new_date, recs, df,
                                                TRUE, {})
                                 /\ UNCHANGED <<store, updates>>
                            ELSE /\ store' = [store EXCEPT
                                                 ![HNEntry] = Panel(Reindex(appended, index))]
                                 /\ updates' = updates + 1
                                 /\ last' = Did("update", "ok", store, new_date, recs, df,
                                                TRUE, {HNEntry})
    /\ UNCHANGED <<job, index, db, sortUnion>>

----------------------------------------------------------------------------
(* EodDerivativeIndicator, L2Indicators, CertainScoreStk
   (a_share_eod_derivative_indicator.py, a_share_l2indicators.py,
   certain_score_stk.py): one source row per date and security, one column
   per factor. *)

DenseJobs == {"EOD", "L2", "CSS"}

(* begin_date: str = '20160101' *)
DenseDefaultBegin == 2

(* chunk_size = 1000000, scaled to the tables of the model *)
ChunkSize == 2

(* A row holds the values of the factors in the order of target_column. *)
DenseRecords == [code : {1, 2}, dt : Dates, vals : {Null, 1, 2} \X {Null, 1}]

(* A fetch that stops after its first page. *)
ReadFirstPage(rows, offset, size) ==
    SubSeq(rows, offset + 1, IF offset + size < Len(rows) THEN offset + size ELSE Len(rows))

(* The pages of LIMIT size OFFSET offset, up to the first short page, when
   every query returns the rows in the same order. *)
RECURSIVE ReadPages(_, _, _)
ReadPages(rows, offset, size) ==
    LET upto == IF offset + size < Len(rows) THEN offset + size ELSE Len(rows)
        page == SubSeq(rows, offset + 1, upto)
    IN IF Len(page) < size THEN page
       ELSE page \o ReadPages(rows, offset + size, size)

(* The OFFSET of every query the loop of read_data sends, in order: offset
   grows by the page size until a page comes back short. *)
RECURSIVE PageOffsets(_, _, _)
PageOffsets(rows, offset, size) ==
    LET upto == IF offset + size < Len(rows) THEN offset + size ELSE Len(rows)
        page == SubSeq(rows, offset + 1, upto)
    IN IF Len(page) < size THEN <<offset>>
       ELSE <<offset>> \o PageOffsets(rows, offset + size, size)

(* read_data: the rows dated begin_date or later; EodDerivativeIndicator
   reads them page by page. *)
DenseReadData(j, table, begin) ==
    LET Keep(r) == r.dt >= begin
    IN IF j = "EOD" THEN ReadPages(SelectSeq(table, Keep), 0, ChunkSize)
       ELSE SelectSeq(table, Keep)

(* The position of factor f in target_column. *)
FactorPos(j, f) == CHOOSE k \in DOMAIN TargetColumn(j) : TargetColumn(j)[k] = f

(* A reduction that takes the least value that is not missing. *)
GroupMin(recs, d, code, k) ==
    LET vs == {recs[i].vals[k] : i \in {n \in DOMAIN recs :
                                          recs[n].dt = d /\ recs[n].code = code}} \ {Null}
    IN IF vs = {} THEN Null ELSE MinOf(vs)

(* groupby([date, code]).max(): the greatest value that is not missing. *)
GroupMax(recs, d, code, k) ==
    LET vs == {recs[i].vals[k] : i \in {n \in DOMAIN recs :
                                          recs[n].dt = d /\ recs[n].code = code}} \ {Null}
    IN IF vs = {} THEN Null ELSE MaxOf(vs)

(* groupby(...).max().unstack()[f]: one row per fetched date, ascending, one
   column per fetched code. *)
Unstack(recs, k) ==
    LET dates == SetToSortedSeq({recs[i].dt : i \in DOMAIN recs})
        codes == {recs[i].code : i \in DOMAIN recs}
    IN [i \in DOMAIN dates |->
          [key |-> dates[i],
           vals |-> [code \in codes |-> GroupMax(recs, dates[i], code, k)]]]

(* A cut to the universe that gives a column the source did not name the
   greatest value of the row. *)
ReindexFilling(rows) ==
    [i \in DOMAIN rows |->
        [key |-> rows[i].key,
         cells |-> [c \in DOMAIN column |->
                      IF column[c] \in DOMAIN rows[i].vals
                      THEN rows[i].vals[column[c]]
                      ELSE MaxOf({Null} \cup Range(rows[i].vals))]]]

(* reindex(columns=self.column): the rows stay as they are. *)
ReindexColumns(rows) ==
    [i \in DOMAIN rows |->
        [key |-> rows[i].key,
         cells |-> [c \in DOMAIN column |->
                      IF column[c] \in DOMAIN rows[i].vals
                      THEN rows[i].vals[column[c]] ELSE Null]]]

(* The loop of update_data over the factors fs: each factor's stored panel is
   read, extended and written back; the loop stops at a panel it cannot
   read. *)
RECURSIVE DenseAppendLoop(_, _, _, _)
DenseAppendLoop(j, fs, recs, st) ==
    IF fs = <<>> THEN st
    ELSE LET f == Head(fs) IN
         IF ~CanRead(st.store[f]) THEN [st EXCEPT !.ok = FALSE]
         ELSE LET exist_data == st.store[f].rows
                  factor_table == ReindexColumns(
                      AppendFrames(ByCode(exist_data), Unstack(recs, FactorPos(j, f))))
              IN DenseAppendLoop(j, Tail(fs), recs,
                     [store |-> [st.store EXCEPT ![f] = Panel(factor_table)],
                      written |-> st.written \cup {f}, ok |-> TRUE])

(* rewrite_data: every factor's panel is replaced by the unstacked rows of the
   whole fetch.  What unstack makes of a fetch without rows depends on the
   release of the library: it raises, or gives a frame without rows. *)
DenseRewrite(j) ==
    /\ job = j
    /\ LET recs == DenseReadData(j, db, DenseDefaultBegin) IN
       \E raises \in (IF recs = <<>> THEN BOOLEAN ELSE {FALSE}) :
        IF raises
        THEN /\ last' = Did("rewrite", "error", NoStore, <<>>, recs, <<>>, TRUE, {})
             /\ UNCHANGED <<store, updates>>
        ELSE /\ store' = [f \in Entries(j) |->
                             Panel(ReindexColumns(Unstack(recs, FactorPos(j, f))))]
             /\ updates' = 0
             /\ last' = Did("rewrite", "ok", NoStore, <<>>, recs,
                            Unstack(recs, FactorPos(j, Probe(j))), TRUE, Entries(j))
    /\ UNCHANGED <<job, index, db, sortUnion>>

(* update_data: reads the probe panel, returns when no calendar date is
   missing from it, and otherwise appends to every factor's panel the
   unstacked rows fetched from the first new date on. *)
DenseUpdate(j) ==
    /\ job = j
    /\ updates < MaxRuns
    /\ IF ~CanRead(store[Probe(j)])
       THEN /\ last' = Did("update", "error", store, <<>>, <<>>, <<>>, FALSE, {})
            /\ UNCHANGED <<store, updates>>
       ELSE LET new_date == SortedDiff(index, RowKeys(store[Probe(j)].rows))
            IN IF new_date = <<>>
               THEN /\ last' = Did("update", "noop", store, new_date, <<>>, <<>>, FALSE, {})
                    /\ UNCHANGED <<store, updates>>
               ELSE LET recs == DenseReadData(j, db, new_date[1]) IN
                    \E raises \in (IF recs = <<>> THEN BOOLEAN ELSE {FALSE}) :
                     IF raises
                     THEN /\ last' = Did("update", "error", store, new_date, recs, <<>>,
                                         TRUE, {})
                          /\ UNCHANGED <<store, updates>>
                     ELSE LET st == DenseAppendLoop(j, TargetColumn(j), recs,
                                        [store |-> store, written |-> {}, ok |-> TRUE])
                          IN /\ store' = st.store
                             /\ updates' = updates + 1
                             /\ last' = Did("update", IF st.ok THEN "ok" ELSE "error", store,
                                            new_date, recs,
                                            Unstack(recs, FactorPos(j, Probe(j))),
                                            TRUE, st.written)
    /\ UNCHANGED <<job, index, db, sortUnion>>

EODRewrite == DenseRewrite("EOD")

EODUpdate == DenseUpdate("EOD")

L2Rewrite == DenseRewrite("L2")

L2Update == DenseUpdate("L2")

CSSRewrite == DenseRewrite("CSS")

CSSUpdate == DenseUpdate("CSS")

----------------------------------------------------------------------------
(* AnnFinancialIndicator (a_share_ann_financial_indicator.py): one record per
   security and report period (YEAR, SEASON); one panel per factor and
   season.  Year 1 is 2016: date 1 is its January 1st and trading date 2 lies
   in it; date 3 is the January 1st of year 2, in which the trading dates 4
   and 5 lie. *)

Years == {1, 2}

(* '{}0101'.format(year) *)
Jan1(year) == IF year = 1 THEN 1 ELSE 3

(* The latest date at or before the report period YEAR + SEASON: '0331' of
   year 1 falls before trading date 2 and '1231' after it, '0331' of year 2
   between the trading dates 4 and 5 and '1231' after them. *)
PeriodFloor(year, season) ==
    IF year = 1 THEN (IF season = 1 THEN 1 ELSE 2)
    ELSE (IF season = 1 THEN 4 ELSE 5)

(* begin_date: str = '20160101' *)
AFIDefaultBegin == 1

(* value = 'NA' *)
NA == -2

AFIRecords == [code : {1, 2}, year : Years, season : Seasons, val : {Null} \cup (1..MaxValue)]

(* A query without its WHERE clause. *)
AFIReadAll(table, begin) == table

(* WHERE REPORT_PERIOD >= begin_date *)
AFIReadData(table, begin) ==
    LET Keep(r) == PeriodFloor(r.year, r.season) >= begin
    IN SelectSeq(table, Keep)

(* sort_values(['SEASON', 'S_INFO_WINDCODE', 'YEAR']) *)
AFIRewriteSortKey(r) == (r.season * (MaxDate + 1) + r.code) * (MaxDate + 1) + r.year

(* sort_values(['S_INFO_WINDCODE', 'YEAR']) *)
AFIUpdateSortKey(r) == r.code * (MaxDate + 1) + r.year

(* financial_indicator.SEASON.unique(): in order of first appearance *)
SeasonUnique(recs) == UniqueInOrder([i \in DOMAIN recs |-> recs[i].season], {})

(* bisect(self.index, '{}0101'.format(year)): how many calendar dates are at
   or before January 1st. *)
Bisect(idx, year) == Cardinality({i \in DOMAIN idx : idx[i] <= Jan1(year)})

(* self.index[bisect(...)] raises when no calendar date is later. *)
HasAnchor(idx, year) == Bisect(idx, year) < Len(idx)

Anchor(idx, year) == idx[Bisect(idx, year) + 1]

(* if pd.isna(value): value = 'NA' *)
Sentinel(v) == IF v = Null THEN NA ELSE v

(* The loop over data_iter from the k-th sorted record on; st holds main_dict
   and stock_dict of the factor, pre_record, and whether no subscript of
   self.index has raised. *)
RECURSIVE AFILoop(_, _, _, _)
AFILoop(recs, k, st, idx) ==
    IF k > Len(recs) THEN st
    ELSE LET pre == st.pre
             rec == recs[k]
         IN IF ~HasAnchor(idx, pre.year) THEN [st EXCEPT !.ok = FALSE]
            ELSE LET stock == DictPut(st.stock, Anchor(idx, pre.year), Sentinel(pre.val))
                 IN IF pre.code # rec.code
                    THEN AFILoop(recs, k + 1,
                             [main |-> [st.main EXCEPT ![pre.season] = (pre.code :> stock) @@ @],
                              stock |-> <<>>, pre |-> rec, ok |-> TRUE], idx)
                    ELSE AFILoop(recs, k + 1,
                             [main |-> st.main, stock |-> stock, pre |-> rec, ok |-> TRUE], idx)

(* main_dict of the factor: season -> code -> {anchor date: value} *)
AFIWalk(recs, idx) ==
    LET st == AFILoop(recs, 2,
                      [main |-> [s \in Range(SeasonUnique(recs)) |-> <<>>],
                       stock |-> <<>>, pre |-> recs[1], ok |-> TRUE], idx)
        pre == st.pre
    IN IF ~st.ok \/ ~HasAnchor(idx, pre.year) THEN [ok |-> FALSE, main |-> <<>>]
       ELSE [ok |-> TRUE,
             main |-> [st.main EXCEPT ![pre.season] =
                          (pre.code :> DictPut(st.stock, Anchor(idx, pre.year),
                                               Sentinel(pre.val))) @@ @]]

(* df.replace('NA', np.nan) *)
ReplaceNA(rows) ==
    [i \in DOMAIN rows |->
        [key |-> rows[i].key,
         cells |-> [c \in DOMAIN column |->
                      IF rows[i].cells[c] = NA THEN Null ELSE rows[i].cells[c]]]]

(* pd.DataFrame(main_dict[s][factor], index=rows, columns=self.column)
   .fillna(method='ffill') and the replacement of 'NA'; the fill works column
   by column, so cutting to the universe before or after it is the same. *)
AFIFrame(byCode, rows) == ReplaceNA(ReindexColumns(Ffill(FrameOnIndex(byCode, rows))))

(* The loop of rewrite_data over enumerate(SEASON.unique()). *)
RECURSIVE AFIWriteLoop(_, _, _, _, _)
AFIWriteLoop(f, seasons, i, main, st) ==
    IF i > Len(seasons) THEN st
    ELSE AFIWriteLoop(f, seasons, i + 1, main,
             [store |-> [st.store EXCEPT
                            ![<<f, i>>] = Panel(AFIFrame(main[seasons[i]], index))],
              written |-> st.written \cup {<<f, i>>}, ok |-> TRUE])

(* The loop of update_data over enumerate(SEASON.unique()): the i-th entry is
   read, extended by the frame of the i-th season over the new dates and
   written back; the loop stops at an entry it cannot read. *)
RECURSIVE AFIAppendLoop(_, _, _, _, _, _)
AFIAppendLoop(f, seasons, i, main, new_date, st) ==
    IF i > Len(seasons) THEN st
    ELSE IF ~CanRead(st.store[<<f, i>>]) THEN [st EXCEPT !.ok = FALSE]
    ELSE LET exist_data == st.store[<<f, i>>].rows
             df == AFIFrame(main[seasons[i]], new_date)
         IN AFIAppendLoop(f, seasons, i + 1, main, new_date,
                [store |-> [st.store EXCEPT ![<<f, i>>] = Panel(exist_data \o df)],
                 written |-> st.written \cup {<<f, i>>}, ok |-> TRUE])

(* rewrite_data: next(data_iter) raises on an empty fetch and the walk raises
   on a year with no later calendar date, both before anything is written;
   otherwise one panel per fetched season is written. *)
AFIRewrite ==
    /\ job = "AFI"
    /\ LET fetched == AFIReadData(db, AFIDefaultBegin)
           recs == SortValues(fetched, [i \in DOMAIN fetched |-> AFIRewriteSortKey(fetched[i])])
           f == TargetColumn("AFI")[1]
       IN IF fetched = <<>> \/ ~AFIWalk(recs, index).ok
          THEN /\ last' = Did("rewrite", "error", NoStore, <<>>, recs, <<>>, TRUE, {})
               /\ UNCHANGED <<store, updates>>
          ELSE LET st == AFIWriteLoop(f, SeasonUnique(recs), 1, AFIWalk(recs, index).main,
                             [store |-> store, written |-> {}, ok |-> TRUE])
               IN /\ store' = st.store
                  /\ updates' = 0
                  /\ last' = Did("rewrite", "ok", NoStore, <<>>, recs, <<>>, TRUE, st.written)
    /\ UNCHANGED <<job, index, db, sortUnion>>

(* update_data: reads the probe panel, returns when no calendar date is
   missing from it, and otherwise appends to the i-th entry the frame of the
   i-th fetched season over the new dates. *)
AFIUpdate ==
    /\ job = "AFI"
    /\ updates < MaxRuns
    /\ IF ~CanRead(store[Probe("AFI")])
       THEN /\ last' = Did("update", "error", store, <<>>, <<>>, <<>>, FALSE, {})
            /\ UNCHANGED <<store, updates>>
       ELSE LET new_date == SortedDiff(index, RowKeys(store[Probe("AFI")].rows))
            IN IF new_date = <<>>
               THEN /\ last' = Did("update", "noop", store, new_date, <<>>, <<>>, FALSE, {})
                    /\ UNCHANGED <<store, updates>>
               ELSE LET fetched == AFIReadData(db, new_date[1])
                        recs == SortValues(fetched,
                                    [i \in DOMAIN fetched |-> AFIUpdateSortKey(fetched[i])])
                        f == TargetColumn("AFI")[1]
                    IN IF fetched = <<>> \/ ~AFIWalk(recs, index).ok
                       THEN /\ last' = Did("update", "error", store, new_date, recs, <<>>,
                                           TRUE, {})
                            /\ UNCHANGED <<store, updates>>
                       ELSE LET st == AFIAppendLoop(f, SeasonUnique(recs), 1,
                                          AFIWalk(recs, index).main, new_date,
                                          [store |-> store, written |-> {}, ok |-> TRUE])
                            IN /\ store' = st.store
                               /\ updates' = updates + 1
                               /\ last' = Did("update", IF st.ok THEN "ok" ELSE "error",
                                              store, new_date, recs, <<>>, TRUE, st.written)
    /\ UNCHANGED <<job, index, db, sortUnion>>

(* The source publishes one more report. *)
AFIPublish ==
    /\ job = "AFI"
    /\ Len(db) < MaxAFIRecords
    /\ \E r \in AFIRecords \ Range(db) : db' = Append(db, r)
    /\ last' = Did("publish", "ok", NoStore, <<>>, <<>>, <<>>, FALSE, {})
    /\ UNCHANGED <<job, index, sortUnion, store, updates>>

----------------------------------------------------------------------------
(* The calendar grows: ReadIndex returns the old dates and later ones. *)
ExtendCalendar ==
    /\ Len(index) < MaxCalendar
    /\ \E d \in TradingDates : d > Last(index) /\ index' = Append(index, d)
    /\ last' = Did("extend", "ok", NoStore, <<>>, <<>>, <<>>, FALSE, {})
    /\ UNCHANGED <<job, db, sortUnion, store, updates>>

(* The tables of at most n rows over the rows R. *)
TablesOf(R, n) == {{}} \cup {Range(s) : s \in [1..n -> R]}

(* The state before the first operation of job j on the table t. *)
Start(j, t, sorted) ==
    /\ job = j
    /\ index = <<MinOf(TradingDates)>>
    /\ db = t
    /\ sortUnion = sorted
    /\ store = NoStore
    /\ updates = 0
    /\ last = [op |-> "init", outcome |-> "ok", prev |-> NoStore, newdate |-> <<>>,
               recs |-> <<>>, delta |-> <<>>, fetched |-> FALSE, written |-> {},
               again |-> FALSE, resumed |-> FALSE, seasons |-> <<>>]

----------------------------------------------------------------------------
(* FloatVolume alone. *)

(* The walk copies FLOAT_A_SHR and compares it with 0 only, so the positive
   values are interchangeable: a table uses 1 before it uses 2. *)
FVCanonical(t) ==
    \A r \in t : r.val > 1 =>
        \E q \in t : q.val = r.val - 1 /\ FVSortKey(q) <= FVSortKey(r)

(* The source returns the rows of one stock and date by ascending or by
   descending value. *)
FVRowKey(desc, r) ==
    FVSortKey(r) * (MaxValue + 1) + (IF desc THEN MaxValue - r.val ELSE r.val)

FVTied(t) == \E r \in t : \E q \in t : r # q /\ r.code = q.code /\ r.dt = q.dt

InitFV ==
    \E t \in TablesOf(FVRecords, MaxRecords) : \E sorted \in BOOLEAN :
        \E desc \in (IF FVTied(t) THEN BOOLEAN ELSE {FALSE}) :
            FVCanonical(t)
                /\ Start("FV", RowsInOrder(t, [r \in t |-> FVRowKey(desc, r)]), sorted)

NextFV ==
    \/ FVRewrite
    \/ FVUpdate
    \/ ExtendCalendar

SpecFV == InitFV /\ [][NextFV]_vars

----------------------------------------------------------------------------
(* HolderNumber alone. *)

(* The frame copies S_HOLDER_NUM and compares it with NaN only, so the
   reported numbers are interchangeable: a table uses 1 before it uses 2. *)
HNCanonical(t) ==
    \A r \in t : r.num > 1 =>
        \E q \in t : q.num = r.num - 1 /\ HNSortKey(q) <= HNSortKey(r)

(* The source returns the rows that the sort keys do not tell apart by
   ascending or by descending number. *)
HNRowKey(desc, r) ==
    HNSortKey(r) * (MaxValue + 2) + (IF desc THEN MaxValue - r.num ELSE r.num + 1)

HNTied(t) == \E r \in t : \E q \in t : r # q /\ HNSortKey(r) = HNSortKey(q)

InitHN ==
    \E t \in TablesOf(HNRecords, MaxHNRecords) :
        \E desc \in (IF HNTied(t) THEN BOOLEAN ELSE {FALSE}) :
            HNCanonical(t)
                /\ Start("HN", RowsInOrder(t, [r \in t |-> HNRowKey(desc, r)]), FALSE)

NextHN ==
    \/ HNRewrite
    \/ HNUpdate
    \/ ExtendCalendar

SpecHN == InitHN /\ [][NextHN]_vars

----------------------------------------------------------------------------
(* The dense-source jobs alone. *)

(* The rows of the source come in one order; the jobs group them, so the
   order shows in the pages only. *)
DenseRowKey(r) ==
    ((r.code * (MaxDate + 1) + r.dt) * (MaxValue + 2) + r.vals[1] + 1) * (MaxValue + 2)
        + r.vals[2] + 1

InitDense ==
    \E j \in DenseJobs : \E t \in TablesOf(DenseRecords, MaxDenseRecords) :
        Start(j, RowsInOrder(t, [r \in t |-> DenseRowKey(r)]), FALSE)

NextDense ==
    \/ EODRewrite
    \/ EODUpdate
    \/ L2Rewrite
    \/ L2Update
    \/ CSSRewrite
    \/ CSSUpdate
    \/ ExtendCalendar

SpecDense == InitDense /\ [][NextDense]_vars

----------------------------------------------------------------------------
(* AnnFinancialIndicator alone: the source holds at most one report when the
   job starts and publishes the others while it runs. *)

InitAFI ==
    \E t \in TablesOf(AFIRecords, 1) : Start("AFI", SetToSeq(t), FALSE)

NextAFI ==
    \/ AFIRewrite
    \/ AFIUpdate
    \/ AFIPublish
    \/ ExtendCalendar

SpecAFI == InitAFI /\ [][NextAFI]_vars

----------------------------------------------------------------------------
(* Every job: the walk-based jobs on a source of at most MaxAllRecords rows,
   the dense-source jobs on one of at most MaxDenseRecords rows, which lets
   the source hold a row for each of two calendar dates. *)

Init ==
    \/ \E t \in TablesOf(FVRecords, MaxAllRecords) : \E sorted \in BOOLEAN :
           Start("FV", SetToSeq(t), sorted)
    \/ \E t \in TablesOf(HNRecords, MaxAllRecords) : Start("HN", SetToSeq(t), FALSE)
    \/ \E j \in DenseJobs : \E t \in TablesOf(DenseRecords, MaxDenseRecords) :
           Start(j, RowsInOrder(t, [r \in t |-> DenseRowKey(r)]), FALSE)
    \/ \E t \in TablesOf(AFIRecords, MaxAllRecords) : Start("AFI", SetToSeq(t), FALSE)

Next ==
    \/ FVRewrite
    \/ FVUpdate
    \/ HNRewrite
    \/ HNUpdate
    \/ EODRewrite
    \/ EODUpdate
    \/ L2Rewrite
    \/ L2Update
    \/ CSSRewrite
    \/ CSSUpdate
    \/ AFIRewrite
    \/ AFIUpdate
    \/ AFIPublish
    \/ ExtendCalendar

Spec == Init /\ [][Next]_vars

----------------------------------------------------------------------------
(* Properties. *)

(* The frame a successful rewrite_data of FloatVolume just persisted. *)
FVRewritten == job = "FV" /\ last.op = "rewrite" /\ last.outcome = "ok"

(* An update_data of FloatVolume just appended its frame. *)
FVUpdated == job = "FV" /\ last.op = "update" /\ last.outcome = "ok"

FVRows == store[FVEntry].rows

(* The positions of the fetched records of code e, dated d or earlier. *)
FVUpTo(recs, e, d) == {i \in DOMAIN recs : recs[i].code = e /\ recs[i].dt <= d}

FVOf(recs, e) == {i \in DOMAIN recs : recs[i].code = e}

FVFirstDate(recs, e) == MinOf({recs[i].dt : i \in FVOf(recs, e)})

(* The cell (d, column[c]); a date that is no row key holds nothing. *)
CellOrNull(rows, d, c) == IF KeyCount(rows, d) = 0 THEN Null ELSE Cell(rows, d, c)

(* A successful rewrite_data of HolderNumber just persisted its frame. *)
HNRewritten == job = "HN" /\ last.op = "rewrite" /\ last.outcome = "ok"

HNRows == store[HNEntry].rows

(* The positions of the fetched records of code e announced on d or earlier. *)
HNUpTo(recs, e, d) == {i \in DOMAIN recs : recs[i].code = e /\ recs[i].ann <= d}

(* C1: after FloatVolume.rewrite_data, for every universe entity with a fetched
   record and every calendar date at or after its earliest record, the
   persisted cell is the value of its record that is last in sort order among
   those dated at or before that date. *)
C1_LocfFromFirstRecord ==
    FVRewritten =>
        \A c \in DOMAIN column : \A d \in Range(index) :
            (FVOf(last.recs, column[c]) # {} /\ d >= FVFirstDate(last.recs, column[c])) =>
                /\ KeyCount(FVRows, d) = 1
                /\ Cell(FVRows, d, c) = last.recs[MaxOf(FVUpTo(last.recs, column[c], d))].val

(* C2: after FloatVolume.rewrite_data, the cell of an entity is null on every
   calendar date before its earliest fetched record. *)
C2_NullBeforeFirstRecord ==
    FVRewritten =>
        \A c \in DOMAIN column : \A d \in Range(index) :
            (FVOf(last.recs, column[c]) # {} /\ d < FVFirstDate(last.recs, column[c])) =>
                CellOrNull(FVRows, d, c) = Null

(* C3: after HolderNumber.rewrite_data, every cell of a universe entity on a
   calendar date is the number of its record that is last in sort order among
   those announced on or before that date (null when that number is null), and
   null when there is no such record. *)
C3_HolderLocf ==
    HNRewritten =>
        \A c \in DOMAIN column : \A d \in Range(index) :
            LET upto == HNUpTo(last.recs, column[c], d)
            IN /\ KeyCount(HNRows, d) = 1
               /\ Cell(HNRows, d, c) = IF upto = {} THEN Null ELSE last.recs[MaxOf(upto)].num

(* C4: rewrite_data over the calendar up to a split point followed by one
   update_data over the whole calendar persists the panel that rewrite_data
   over the whole calendar persists. *)
C4_BuildMergeEquivalence ==
    (FVUpdated /\ updates = 1) =>
        FVRows = FrameFromDicts(FVWalk(FVSorted(FVReadData(db, FVDefaultBegin)), index, index),
                                sortUnion)

(* C5: the frame update_data appends has exactly one row per new date and no
   row for a date already persisted. *)
C5_DeltaRowsAreNewDates ==
    FVUpdated =>
        /\ \A i \in DOMAIN last.delta : last.delta[i].key \in Range(last.newdate)
        /\ \A d \in Range(last.newdate) : KeyCount(last.delta, d) = 1

(* An update_data of HolderNumber found new dates and fetched records. *)
HNMerged == job = "HN" /\ last.op = "update" /\ last.newdate # <<>> /\ last.recs # <<>>

(* C6: the frame HolderNumber.update_data appends has rows for new dates only,
   and the persisted result has the calendar as its row index. *)
C6_HolderDeltaOnlyNewDates ==
    HNMerged =>
        /\ \A i \in DOMAIN last.delta : last.delta[i].key \in Range(last.newdate)
        /\ last.outcome = "ok"
        /\ RowKeys(HNRows) = index

(* C7: when the new dates follow the last persisted date, an entity with a
   value on that date and no source record after it up to the last new date
   keeps that value on every new date. *)
C7_BoundaryContinuity ==
    FVUpdated =>
        \A c \in DOMAIN column :
            LET before == last.prev[FVEntry].rows
                tk == MaxOf(Range(RowKeys(before)))
                v == Cell(before, tk, c)
            IN (/\ before # <<>>
                /\ last.newdate[1] > tk
                /\ v # Null
                /\ ~ \E r \in Range(db) : r.code = column[c] /\ r.dt > tk
                                   /\ r.dt <= Last(last.newdate)) =>
                   \A d \in Range(last.newdate) :
                       /\ KeyCount(FVRows, d) >= 1
                       /\ \A i \in DOMAIN FVRows : FVRows[i].key = d => FVRows[i].cells[c] = v

(* The rows an update_data run appended to entry e. *)
Appended(e) == SubSeq(store[e].rows, Len(last.prev[e].rows) + 1, Len(store[e].rows))

(* Some record of code e is anchored on a new date of the last update_data. *)
AFIAnchoredOnNew(e) ==
    \E r \in Range(db) : /\ r.code = e
                         /\ HasAnchor(index, r.year)
                         /\ Anchor(index, r.year) \in Range(last.newdate)

(* C8: in every panel AnnFinancialIndicator.update_data extended, an entity
   with a value on the last persisted date and no record anchored on a new
   date has that value in every appended row. *)
C8_AnnBoundaryContinuity ==
    (job = "AFI" /\ last.op = "update") =>
        \A e \in last.written : \A c \in DOMAIN column :
            LET before == last.prev[e].rows
            IN (before # <<>> /\ Last(before).cells[c] # Null
                   /\ ~AFIAnchoredOnNew(column[c])) =>
                \A i \in DOMAIN Appended(e) :
                    Appended(e)[i].cells[c] = Last(before).cells[c]

(* C9: in the dense-source jobs no date is the key of two rows of a persisted
   panel, and an update_data run that follows an update_data run leaves the
   panels as it found them. *)
C9_RepeatedUpdateIdempotent ==
    job \in DenseJobs =>
        /\ \A e \in Entries(job) : ~HasDuplicateKeys(store[e].rows)
        /\ (last.op = "update" /\ last.again) => store = last.prev

(* The probe panel update_data found held every calendar date. *)
UpToDate ==
    /\ last.op = "update"
    /\ last.prev[Probe(job)].exists
    /\ Range(index) \subseteq Range(RowKeys(last.prev[Probe(job)].rows))

(* C10: in every job, an update_data run that finds every calendar date among
   the row keys of the probe panel queries no source and writes no panel: the
   store is as the run found it. *)
C10_NoOpUpdate ==
    UpToDate => (~last.fetched /\ last.written = {} /\ store = last.prev)

(* An update_data run returned at once on a probe panel that holds rows. *)
C10_Witness ==
    /\ UpToDate
    /\ last.outcome = "noop"
    /\ store[Probe(job)].rows # <<>>
    /\ Len(index) > 1

----------------------------------------------------------------------------
(* The probe panel update_data asked for had never been written. *)
StoreMissing ==
    /\ last.op = "update"
    /\ ~last.prev[Probe(job)].exists

(* C11: in every job, an update_data run that cannot read the persisted probe
   panel fails with the read error before it queries the source and before it
   writes: nothing is fetched, no panel is written or rebuilt, and the store
   is as the run found it. *)
C11_StoreMissing ==
    StoreMissing =>
        /\ last.outcome = "error"
        /\ ~last.fetched
        /\ last.written = {}
        /\ store = last.prev

(* An update_data run failed on a store without panels while the source had
   rows to offer. *)
C11_Witness ==
    /\ StoreMissing
    /\ last.outcome = "error"
    /\ db # <<>>
    /\ store = NoStore

----------------------------------------------------------------------------
(* The jobs whose update_data appends to what it read. *)
AppendJobs == {"FV", "AFI"} \cup DenseJobs

(* The rows of p are the first rows of q, in the same order and with the same
   cells. *)
IsPrefix(p, q) == Len(p) <= Len(q) /\ SubSeq(q, 1, Len(p)) = p

(* C12: for FloatVolume, AnnFinancialIndicator and the dense-source jobs, after
   an update_data run with new dates every panel that was persisted before the
   run is still persisted, and its first rows are the rows it had before the
   run, in the same order and with the same cell in every universe column. *)
C12_AppendOnlyHistory ==
    (job \in AppendJobs /\ last.op = "update" /\ last.newdate # <<>>) =>
        \A e \in Entries(job) :
            last.prev[e].exists =>
                /\ store[e].exists
                /\ IsPrefix(last.prev[e].rows, store[e].rows)

(* An update_data run appended rows to a panel that held a value. *)
C12_Witness ==
    /\ job \in AppendJobs
    /\ last.op = "update"
    /\ last.outcome = "ok"
    /\ \E e \in last.written :
          /\ Len(store[e].rows) > Len(last.prev[e].rows)
          /\ \E i \in DOMAIN last.prev[e].rows : \E c \in DOMAIN column :
                last.prev[e].rows[i].cells[c] # Null

----------------------------------------------------------------------------
(* A rewrite_data of a dense-source job just wrote its panels. *)
DenseRewritten == job \in DenseJobs /\ last.op = "rewrite" /\ last.outcome = "ok"

(* C13: every panel persisted by the rewrite_data of a dense-source job has as
   row keys exactly the trading calendar, in calendar order, whatever dates
   the fetched records carry. *)
C13_DenseRowFidelity ==
    DenseRewritten => \A e \in Entries(job) : RowKeys(store[e].rows) = index

----------------------------------------------------------------------------
(* C14: the panel persisted by FloatVolume.rewrite_data has as row keys
   exactly the trading calendar, in calendar order, the leading dates without
   a value included; an update_data run on it with the same calendar therefore
   finds no new date. *)
C14_FloatVolumeRowFidelity ==
    FVRewritten =>
        /\ RowKeys(FVRows) = index
        /\ SortedDiff(index, RowKeys(FVRows)) = <<>>

----------------------------------------------------------------------------
(* The full builds of every job on a source that holds rows of a security
   outside the universe: of the universe <<2, 1>>, security 1 may have rows
   and security 2 has none. *)

MaxColumnRecords == 2

(* The code of a security that self.column does not hold. *)
Outsider == 3

(* The rows of R, told of security 1 and of the outsider. *)
Foreign(R) == {[r EXCEPT !.code = c] : r \in R, c \in {1, Outsider}}

(* The order the source returns the reports in. *)
AFIRowKey(r) == AFIRewriteSortKey(r) * (MaxValue + 2) + r.val + 1

InitColumns ==
    \/ \E t \in TablesOf(Foreign(FVRecords), MaxColumnRecords) : \E sorted \in BOOLEAN :
           Start("FV", RowsInOrder(t, [r \in t |-> FVRowKey(FALSE, r)]), sorted)
    \/ \E t \in TablesOf(Foreign(HNRecords), MaxColumnRecords) :
           Start("HN", RowsInOrder(t, [r \in t |-> HNRowKey(FALSE, r)]), FALSE)
    \/ \E j \in DenseJobs : \E t \in TablesOf(Foreign(DenseRecords), MaxColumnRecords) :
           Start(j, RowsInOrder(t, [r \in t |-> DenseRowKey(r)]), FALSE)
    \/ \E t \in TablesOf(Foreign(AFIRecords), MaxColumnRecords) :
           Start("AFI", RowsInOrder(t, [r \in t |-> AFIRowKey(r)]), FALSE)

NextColumns ==
    \/ FVRewrite
    \/ HNRewrite
    \/ EODRewrite
    \/ L2Rewrite
    \/ CSSRewrite
    \/ AFIRewrite
    \/ ExtendCalendar

SpecColumns == InitColumns /\ [][NextColumns]_vars

(* A rewrite_data run just wrote its panels. *)
Rewritten == last.op = "rewrite" /\ last.outcome = "ok"

(* The value record r reports for the panel of entry e. *)
ValueIn(r, e) ==
    IF job = "FV" THEN r.val
    ELSE IF job = "HN" THEN r.num
    ELSE IF job = "AFI" THEN r.val
    ELSE r.vals[FactorPos(job, e)]

(* C15: every panel a rewrite_data run persisted has one cell per universe
   security in every row, in universe order; the column of a universe security
   without a fetched record is null throughout, and every cell that is not
   null holds a value that a fetched record of the security of its column
   reports, so that a record of a security outside the universe reaches no
   cell. *)
C15_ColumnFidelity ==
    Rewritten =>
        \A e \in last.written : \A i \in DOMAIN store[e].rows :
            /\ DOMAIN store[e].rows[i].cells = DOMAIN column
            /\ \A c \in DOMAIN column :
                 LET own == {k \in DOMAIN last.recs : last.recs[k].code = column[c]}
                     cell == store[e].rows[i].cells[c]
                 IN /\ own = {} => cell = Null
                    /\ cell # Null => \E k \in own : ValueIn(last.recs[k], e) = cell

(* A rewrite_data run fetched a record of the outsider with a value and a
   record of a universe security, and persisted a panel with a row that holds
   a value. *)
C15_Witness ==
    /\ Rewritten
    /\ \E k \in DOMAIN last.recs : \E e \in last.written :
          last.recs[k].code = Outsider /\ ValueIn(last.recs[k], e) # Null
    /\ \E e \in last.written : \E i \in DOMAIN store[e].rows :
          /\ store[e].rows[i].cells[ColOf(1)] # Null
          /\ store[e].rows[i].cells[ColOf(2)] = Null

----------------------------------------------------------------------------
(* Several fetched records of code e carry the effective date t. *)
FVTiedAt(recs, e, t) == Cardinality({i \in FVOf(recs, e) : recs[i].dt = t}) > 1

HNTiedAt(recs, e, t) ==
    Cardinality({i \in DOMAIN recs : recs[i].code = e /\ recs[i].ann = t}) > 1

(* C16: after the rewrite_data of FloatVolume and of HolderNumber, when several
   records of an entity carry the same effective date, the cell of the entity
   on every calendar date from that date up to its next later record holds the
   value of the record that is last of them in the sorted sequence. *)
C16_LastWriteWins ==
    /\ FVRewritten =>
         \A c \in DOMAIN column : \A d \in Range(index) :
             LET upto == FVUpTo(last.recs, column[c], d)
             IN (upto # {} /\ FVTiedAt(last.recs, column[c], last.recs[MaxOf(upto)].dt)) =>
                    /\ KeyCount(FVRows, d) = 1
                    /\ Cell(FVRows, d, c) = last.recs[MaxOf(upto)].val
    /\ HNRewritten =>
         \A c \in DOMAIN column : \A d \in Range(index) :
             LET upto == HNUpTo(last.recs, column[c], d)
             IN (upto # {} /\ HNTiedAt(last.recs, column[c], last.recs[MaxOf(upto)].ann)) =>
                    /\ KeyCount(HNRows, d) = 1
                    /\ Cell(HNRows, d, c) = last.recs[MaxOf(upto)].num

----------------------------------------------------------------------------
(* AnnFinancialIndicator on a calendar that may list any date, date 3 (the
   January 1st of year 2) among them. *)

(* The calendar grows by a later date, trading date or not. *)
ExtendAnyDate ==
    /\ Len(index) < MaxCalendar
    /\ \E d \in Dates : d > Last(index) /\ index' = Append(index, d)
    /\ last' = Did("extend", "ok", NoStore, <<>>, <<>>, <<>>, FALSE, {})
    /\ UNCHANGED <<job, db, sortUnion, store, updates>>

NextAnchor ==
    \/ AFIRewrite
    \/ AFIUpdate
    \/ AFIPublish
    \/ ExtendAnyDate

SpecAnchor == InitAFI /\ [][NextAnchor]_vars

(* The calendar dates at or after January 1st of the year. *)
FromJan1(idx, year) == {d \in Range(idx) : d >= Jan1(year)}

(* A run of AnnFinancialIndicator walked the records it fetched. *)
AFIWalked ==
    /\ job = "AFI"
    /\ last.op \in {"rewrite", "update"}
    /\ last.recs # <<>>

(* C17: in the rewrite_data and the update_data of AnnFinancialIndicator, a
   record of report year Y is placed on the first calendar date at or after
   January 1st of Y, on January 1st itself when the calendar lists it: when
   the calendar has such a date the walk finds an anchor, and the anchor is
   that date. *)
C17_PeriodAnchor ==
    AFIWalked =>
        \A k \in DOMAIN last.recs :
            LET year == last.recs[k].year
            IN FromJan1(index, year) # {} =>
                   /\ HasAnchor(index, year)
                   /\ Anchor(index, year) = MinOf(FromJan1(index, year))

----------------------------------------------------------------------------
(* A rewrite_data of AnnFinancialIndicator just wrote its panels. *)
AFIRewritten == job = "AFI" /\ last.op = "rewrite" /\ last.outcome = "ok"

(* Every fetched record belongs to one season. *)
SingleSeason(recs) == Cardinality({recs[k].season : k \in DOMAIN recs}) = 1

(* The panel of the first season. *)
AFIRows == store[Probe("AFI")].rows

(* The positions of the sorted records of code e anchored on d or earlier. *)
AFIUpTo(recs, e, d) ==
    {k \in DOMAIN recs : recs[k].code = e /\ Anchor(index, recs[k].year) <= d}

(* C18: after AnnFinancialIndicator.rewrite_data on records of one season, for
   every universe entity and every calendar date the persisted cell is the
   value of the entity's record of greatest report year among those anchored
   on or before the date (null when that value is null), and null when no
   record of the entity is anchored on or before the date. *)
C18_AnchoredForwardFill ==
    (AFIRewritten /\ SingleSeason(last.recs)) =>
        \A c \in DOMAIN column : \A d \in Range(index) :
            LET upto == AFIUpTo(last.recs, column[c], d)
            IN /\ KeyCount(AFIRows, d) = 1
               /\ Cell(AFIRows, d, c) = IF upto = {} THEN Null ELSE last.recs[MaxOf(upto)].val

(* A rewrite_data run on one season persisted a panel in which an entity holds
   the value of its first report year up to the anchor of its second, and the
   different value of the second on that anchor and on the date after it. *)
C18_Witness ==
    /\ AFIRewritten
    /\ SingleSeason(last.recs)
    /\ index = <<2, 4, 5>>
    /\ \E k \in DOMAIN last.recs : \E l \in DOMAIN last.recs :
          /\ last.recs[k].code = 1 /\ last.recs[l].code = 1
          /\ last.recs[k].year < last.recs[l].year
          /\ last.recs[k].val \notin {Null, last.recs[l].val}
          /\ last.recs[l].val # Null
          /\ Cell(AFIRows, 2, ColOf(1)) = last.recs[k].val
          /\ Cell(AFIRows, 4, ColOf(1)) = last.recs[l].val
          /\ Cell(AFIRows, 5, ColOf(1)) = last.recs[l].val

----------------------------------------------------------------------------
(* The entry rewrite_data wrote for season s: the position of s among the
   fetched seasons numbers the file. *)
AFIEntryOf(recs, s) ==
    <<TargetColumn("AFI")[1],
      CHOOSE i \in DOMAIN SeasonUnique(recs) : SeasonUnique(recs)[i] = s>>

(* The positions of the sorted records of code e and season s anchored on d
   or earlier. *)
AFISeasonUpTo(recs, e, s, d) == {k \in AFIUpTo(recs, e, d) : recs[k].season = s}

(* C19: after AnnFinancialIndicator.rewrite_data no persisted cell holds the
   sentinel, and in the panel of every season the cell of an entity is null on
   every calendar date from the anchor of a record of that season that reports
   null up to, and excluding, the anchor of the entity's next record of the
   season: the reported null is not overwritten by an earlier value. *)
C19_TwoPhaseNull ==
    AFIRewritten =>
        /\ \A e \in last.written : \A i \in DOMAIN store[e].rows : \A c \in DOMAIN column :
               store[e].rows[i].cells[c] # NA
        /\ \A s \in Range(SeasonUnique(last.recs)) :
               \A c \in DOMAIN column : \A d \in Range(index) :
                   LET upto == AFISeasonUpTo(last.recs, column[c], s, d)
                   IN (upto # {} /\ last.recs[MaxOf(upto)].val = Null) =>
                          Cell(store[AFIEntryOf(last.recs, s)].rows, d, c) = Null

----------------------------------------------------------------------------
(* C20: in every panel AnnFinancialIndicator.rewrite_data persisted and every
   entity column, a cell that is not null on a calendar date is followed by
   cells that are not null on every later calendar date. *)
C20_NeverReverts ==
    AFIRewritten =>
        \A e \in last.written : \A c \in DOMAIN column :
            \A i \in DOMAIN store[e].rows : \A j \in DOMAIN store[e].rows :
                (i < j /\ store[e].rows[i].cells[c] # Null) => store[e].rows[j].cells[c] # Null

----------------------------------------------------------------------------
(* C21: after AnnFinancialIndicator.rewrite_data, for every fetched season and
   every universe entity, the column of the entity in the panel of the season
   is built from the entity's records of that season alone: on every calendar
   date the cell is the value of the entity's record of the season with the
   greatest report year among those anchored on or before the date, and null
   when the season has no such record of the entity, whichever entities the
   neighbouring seasons begin and end with. *)
C21_SeasonIndependence ==
    AFIRewritten =>
        \A s \in Range(SeasonUnique(last.recs)) :
            \A c \in DOMAIN column : \A d \in Range(index) :
                LET upto == AFISeasonUpTo(last.recs, column[c], s, d)
                    rows == store[AFIEntryOf(last.recs, s)].rows
                IN /\ KeyCount(rows, d) = 1
                   /\ Cell(rows, d, c) = IF upto = {} THEN Null
                                         ELSE last.recs[MaxOf(upto)].val

----------------------------------------------------------------------------
(* An update_data of AnnFinancialIndicator wrote entries. *)
AFIAppended == job = "AFI" /\ last.op = "update" /\ last.written # {}

(* C22: after an update_data run of AnnFinancialIndicator that wrote, the
   rows appended to the entry numbered k come from the delta records of the
   season whose panel rewrite_data stored under k, whichever seasons the delta
   holds and in whichever order; and every entry rewrite_data stored has been
   extended by one row for each new date. *)
C22_SeasonEntryConsistency ==
    AFIAppended =>
        /\ \A e \in last.written :
               /\ e[2] \in DOMAIN last.seasons
               /\ SeasonUnique(last.recs)[e[2]] = last.seasons[e[2]]
        /\ \A k \in DOMAIN last.seasons :
               LET e == <<TargetColumn("AFI")[1], k>>
               IN RowKeys(store[e].rows) = RowKeys(last.prev[e].rows) \o last.newdate

----------------------------------------------------------------------------
(* The rows of the source table dated at or after the default begin date. *)
DenseFetched == {r \in Range(db) : r.dt >= DenseDefaultBegin}

(* The values of the k-th factor that the fetched rows of date d and security
   code report. *)
ReportedValues(d, code, k) ==
    {r.vals[k] : r \in {q \in DenseFetched : q.dt = d /\ q.code = code}} \ {Null}

(* The records in the opposite order. *)
Reverse(s) == [i \in DOMAIN s |-> s[Len(s) + 1 - i]]

(* C23: after the rewrite_data of a dense-source job, in the panel of every
   factor the cell of every fetched date and universe security is the greatest
   value of that factor among the fetched rows of the date and the security
   that report one, and null when none does; the panel is the one the rows
   give in the opposite order, and no other factor enters it. *)
C23_PerKeyMaximum ==
    DenseRewritten =>
        \A f \in Entries(job) :
            /\ \A i \in DOMAIN store[f].rows : \A c \in DOMAIN column :
                   LET vs == ReportedValues(store[f].rows[i].key, column[c], FactorPos(job, f))
                   IN store[f].rows[i].cells[c] = IF vs = {} THEN Null ELSE MaxOf(vs)
            /\ \A r \in DenseFetched : KeyCount(store[f].rows, r.dt) = 1
            /\ store[f].rows = ReindexColumns(Unstack(Reverse(last.recs), FactorPos(job, f)))

(* A rewrite_data run fetched two rows of one date and universe security with
   different values of a factor and persisted the greater. *)
C23_Witness ==
    /\ DenseRewritten
    /\ \E f \in Entries(job) : \E i \in DOMAIN store[f].rows : \E c \in DOMAIN column :
          /\ Cardinality(ReportedValues(store[f].rows[i].key, column[c], FactorPos(job, f))) > 1
          /\ store[f].rows[i].cells[c] = MaxValue

----------------------------------------------------------------------------
(* The page sizes the fetch is checked for. *)
MaxPageSize == 3

(* A run of EodDerivativeIndicator queried the source. *)
EODFetched ==
    /\ job = "EOD"
    /\ last.op \in {"rewrite", "update"}
    /\ last.fetched

(* The result set of the query of that run, in the order of the source. *)
EODResultSet ==
    LET begin == IF last.op = "rewrite" THEN DenseDefaultBegin ELSE last.newdate[1]
        Keep(r) == r.dt >= begin
    IN SelectSeq(db, Keep)

(* C24: the paginated fetch of EodDerivativeIndicator.read_data, on a result
   set of N rows returned in one stable order and for every page size P, sends
   exactly N \div P + 1 queries, at the offsets 0, P, 2P, ..., and returns
   every row of the result set exactly once, in that order; the run fetched
   just that with its own page size. *)
C24_PaginatedFetch ==
    EODFetched =>
        /\ \A P \in 1..MaxPageSize :
               /\ PageOffsets(EODResultSet, 0, P) =
                      [i \in 1..((Len(EODResultSet) \div P) + 1) |-> (i - 1) * P]
               /\ ReadPages(EODResultSet, 0, P) = EODResultSet
        /\ last.recs = EODResultSet

(* A run fetched a result set of as many rows as a page holds, with a full
   page and an empty one. *)
C24_Witness ==
    /\ EODFetched
    /\ Len(EODResultSet) = ChunkSize
    /\ PageOffsets(EODResultSet, 0, ChunkSize) = <<0, ChunkSize>>
    /\ last.recs = EODResultSet

----------------------------------------------------------------------------
(* The dense-source jobs when a run of update_data can be stopped between two
   writes.  The source holds one row for the first calendar date and
   publishes one for every later trading day, so that every fetch returns rows
   for all the dates it asks for. *)

(* update_data of job j, stopped in its loop over the factors after the
   panels of the first n factors were written and before the others were. *)
DenseUpdateInterrupted(j) ==
    /\ job = j
    /\ updates < MaxRuns
    /\ CanRead(store[Probe(j)])
    /\ LET new_date == SortedDiff(index, RowKeys(store[Probe(j)].rows))
           recs == DenseReadData(j, db, new_date[1])
       IN /\ new_date # <<>>
          /\ recs # <<>>
          /\ \E n \in 1..(Len(TargetColumn(j)) - 1) :
               LET st == DenseAppendLoop(j, SubSeq(TargetColumn(j), 1, n), recs,
                                         [store |-> store, written |-> {}, ok |-> TRUE])
               IN /\ st.ok
                  /\ store' = st.store
                  /\ updates' = updates + 1
                  /\ last' = Did("update", "interrupted", store, new_date, recs,
                                 Unstack(recs, FactorPos(j, Probe(j))), TRUE, st.written)
    /\ UNCHANGED <<job, index, db, sortUnion>>

EODUpdateInterrupted == DenseUpdateInterrupted("EOD")

L2UpdateInterrupted == DenseUpdateInterrupted("L2")

CSSUpdateInterrupted == DenseUpdateInterrupted("CSS")

(* A trading day passes: the calendar grows by its date and the source
   publishes a row of that date. *)
DenseTradingDay ==
    /\ job \in DenseJobs
    /\ Len(index) < MaxCalendar
    /\ \E d \in TradingDates : \E r \in DenseRecords :
          /\ d > Last(index)
          /\ r.dt = d
          /\ index' = Append(index, d)
          /\ db' = Append(db, r)
    /\ last' = Did("extend", "ok", NoStore, <<>>, <<>>, <<>>, FALSE, {})
    /\ UNCHANGED <<job, sortUnion, store, updates>>

InitInterrupt ==
    \E j \in DenseJobs : \E r \in DenseRecords :
        r.dt = MinOf(TradingDates) /\ Start(j, <<r>>, FALSE)

NextInterrupt ==
    \/ EODRewrite
    \/ EODUpdate
    \/ EODUpdateInterrupted
    \/ L2Rewrite
    \/ L2Update
    \/ L2UpdateInterrupted
    \/ CSSRewrite
    \/ CSSUpdate
    \/ CSSUpdateInterrupted
    \/ DenseTradingDay

SpecInterrupt == InitInterrupt /\ [][NextInterrupt]_vars

(* An update_data run of a dense-source job ran to its end right after one
   that was stopped between two writes. *)
Resumed ==
    /\ job \in DenseJobs
    /\ last.op = "update"
    /\ last.resumed
    /\ last.outcome \in {"ok", "noop"}

(* C25: when an update_data run of a multi-factor job was stopped after it
   wrote some of the factor panels and the next update_data run ran to its
   end, every factor panel of the job has the same row keys, and these are the
   calendar dates, each exactly once: no panel lacks the new dates and none
   holds the appended rows twice. *)
C25_InterruptedUpdate ==
    Resumed =>
        \A e \in Entries(job) :
            /\ RowKeys(store[e].rows) = RowKeys(store[Probe(job)].rows)
            /\ Range(RowKeys(store[e].rows)) = Range(index)
            /\ \A d \in Range(index) : KeyCount(store[e].rows, d) = 1

----------------------------------------------------------------------------
(* The jobs that walk the sorted records from the first one on. *)
WalkJobs == {"FV", "HN", "AFI"}

(* No row of the source table answers the queries of read_data(begin):
   FloatVolume asks for the positive values dated begin or later and for the
   positive value of each code on its latest date up to begin, HolderNumber
   for every row announced at or after begin and for the rows of each code
   on its latest announcement before begin, AnnFinancialIndicator for the
   report periods at or after begin. *)
SourceIsSilent(begin) ==
    IF job = "FV"
    THEN \A r \in Range(db) :
             \/ r.val <= 0
             \/ /\ r.dt < begin
                /\ \E q \in Range(db) : q.code = r.code /\ q.dt <= begin /\ q.dt > r.dt
    ELSE IF job = "HN" THEN db = <<>>
    ELSE \A r \in Range(db) : PeriodFloor(r.year, r.season) < begin

(* The begin date of the query of the latest run. *)
BeginOfRun ==
    IF last.op = "update" THEN last.newdate[1]
    ELSE IF job = "FV" THEN FVDefaultBegin
    ELSE IF job = "HN" THEN HNDefaultBegin
    ELSE AFIDefaultBegin

(* A run of a walk-based job queried a source that had no record for it. *)
EmptyFetchRun ==
    /\ job \in WalkJobs
    /\ last.op \in {"rewrite", "update"}
    /\ last.fetched
    /\ SourceIsSilent(BeginOfRun)

(* C26: in FloatVolume, HolderNumber and AnnFinancialIndicator, a rewrite_data
   or update_data run whose query returns no record fails before it writes:
   the step that performs the run leaves every persisted panel as it was, so
   an update_data run with new dates and no fetched record does not extend the
   panel. *)
C26_EmptyFetch ==
    [][EmptyFetchRun' =>
           /\ last'.outcome = "error"
           /\ last'.written = {}
           /\ store' = store]_vars

(* An update_data run with new dates queried a source whose table holds rows
   but none for the query, and the panel it read still ends before the new
   dates. *)
C26_Witness ==
    /\ EmptyFetchRun
    /\ last.op = "update"
    /\ last.newdate # <<>>
    /\ db # <<>>
    /\ store = last.prev
    /\ store[Probe(job)].rows # <<>>
    /\ last.newdate[1] \notin Range(RowKeys(store[Probe(job)].rows))

====
